---------------------------- MODULE Spec2Model ----------------------------
(***************************************************************************)
(* Voxify (src/transcriptor.py): the terminology store, the training run   *)
(* that derives terms and phrases from reference documents, and the        *)
(* transcript cleaner that filters filler words with them.                 *)
(*                                                                         *)
(* Texts are strings; a character is a string of length 1.  The training   *)
(* run (train_worker) and a clean_transcription call each run on their own *)
(* thread and are modelled statement by statement, so their steps          *)
(* interleave.                                                             *)
(***************************************************************************)
EXTENDS Integers, Sequences, FiniteSets, TLC

(***************************************************************************)
(* Python string operations used by the program.                           *)
(***************************************************************************)
Ch(s, i) == SubSeq(s, i, i)

Rest(s) == SubSeq(s, 2, Len(s))

LowerLetters ==
    << "a", "b", "c", "d", "e", "f", "g", "h", "i", "j", "k", "l", "m",
      "n", "o", "p", "q", "r", "s", "t", "u", "v", "w", "x", "y", "z" >>

UpperLetters ==
    << "A", "B", "C", "D", "E", "F", "G", "H", "I", "J", "K", "L", "M",
      "N", "O", "P", "Q", "R", "S", "T", "U", "V", "W", "X", "Y", "Z" >>

LowerSet ==
    { "a", "b", "c", "d", "e", "f", "g", "h", "i", "j", "k", "l", "m",
      "n", "o", "p", "q", "r", "s", "t", "u", "v", "w", "x", "y", "z" }

UpperSet ==
    { "A", "B", "C", "D", "E", "F", "G", "H", "I", "J", "K", "L", "M",
      "N", "O", "P", "Q", "R", "S", "T", "U", "V", "W", "X", "Y", "Z" }

\* the characters the regular expression class \w matches
WordChars ==
    { "a", "b", "c", "d", "e", "f", "g", "h", "i", "j", "k", "l", "m",
      "n", "o", "p", "q", "r", "s", "t", "u", "v", "w", "x", "y", "z",
      "A", "B", "C", "D", "E", "F", "G", "H", "I", "J", "K", "L", "M",
      "N", "O", "P", "Q", "R", "S", "T", "U", "V", "W", "X", "Y", "Z",
      "0", "1", "2", "3", "4", "5", "6", "7", "8", "9", "_" }

\* the characters str.strip() and str.split() treat as blank
Whitespace == {" ", "\n", "\t"}

\* the argument of word.strip('.,;!?')
StripChars == {".", ",", ";", "!", "?"}

LowerChar(c) ==
    IF c \in UpperSet
    THEN LowerLetters[CHOOSE k \in 1..26 : UpperLetters[k] = c]
    ELSE c

UpperChar(c) ==
    IF c \in LowerSet
    THEN UpperLetters[CHOOSE k \in 1..26 : LowerLetters[k] = c]
    ELSE c

RECURSIVE StrLower(_)
StrLower(s) == IF s = "" THEN "" ELSE LowerChar(Ch(s, 1)) \o StrLower(Rest(s))

\* str.capitalize(): first character upper case, the rest lower case
Capitalize(s) == IF s = "" THEN "" ELSE UpperChar(Ch(s, 1)) \o StrLower(Rest(s))

RECURSIVE LStrip(_, _)
LStrip(s, chars) ==
    IF s # "" /\ Ch(s, 1) \in chars THEN LStrip(Rest(s), chars) ELSE s

RECURSIVE RStrip(_, _)
RStrip(s, chars) ==
    IF s # "" /\ Ch(s, Len(s)) \in chars
    THEN RStrip(SubSeq(s, 1, Len(s) - 1), chars)
    ELSE s

Strip(s, chars) == RStrip(LStrip(s, chars), chars)

\* the pieces of s between separator characters, empty pieces included
RECURSIVE SplitAcc(_, _, _)
SplitAcc(s, cur, seps) ==
    IF s = "" THEN <<cur>>
    ELSE IF Ch(s, 1) \in seps THEN <<cur>> \o SplitAcc(Rest(s), "", seps)
    ELSE SplitAcc(Rest(s), cur \o Ch(s, 1), seps)

NonEmpty(s) == s # ""

\* str.split(): split on runs of blanks, no empty pieces
SplitWords(s) == SelectSeq(SplitAcc(s, "", Whitespace), NonEmpty)

NotBlank(s) == Strip(s, Whitespace) # ""

StripBlank(s) == Strip(s, Whitespace)

RECURSIVE Join(_, _)
Join(seq, sep) ==
    IF seq = <<>> THEN ""
    ELSE IF Len(seq) = 1 THEN seq[1]
    ELSE seq[1] \o sep \o Join(Tail(seq), sep)

\* collections.Counter: the number of occurrences of x in seq
Count(seq, x) == Cardinality({k \in 1..Len(seq) : seq[k] = x})

Range(seq) == {seq[k] : k \in 1..Len(seq)}

(***************************************************************************)
(* re.findall(r'\b[a-z]+\b', text): scanning left to right, a match starts *)
(* at p where a word boundary precedes a lower-case letter, takes the      *)
(* whole run of lower-case letters, and needs a word boundary after it.    *)
(* A shorter run never ends at a boundary (the next character is a         *)
(* letter), so a run followed by a digit or underscore yields no match.    *)
(***************************************************************************)
RECURSIVE RunEnd(_, _)
RunEnd(t, p) ==
    IF p <= Len(t) /\ Ch(t, p) \in LowerSet THEN RunEnd(t, p + 1) ELSE p

RECURSIVE FindAllFrom(_, _)
FindAllFrom(t, p) ==
    IF p > Len(t) THEN <<>>
    ELSE LET q == RunEnd(t, p)
             startOK == q > p /\ (p = 1 \/ Ch(t, p - 1) \notin WordChars)
             endOK == q > Len(t) \/ Ch(t, q) \notin WordChars
         IN  IF startOK /\ endOK
             THEN <<SubSeq(t, p, q - 1)>> \o FindAllFrom(t, q)
             ELSE FindAllFrom(t, p + 1)

Tokenize(text) == FindAllFrom(StrLower(text), 1)

Bigrams(words) ==
    [k \in 1..(Len(words) - 1) |-> words[k] \o " " \o words[k + 1]]

Trigrams(words) ==
    [k \in 1..(Len(words) - 2) |->
        words[k] \o " " \o words[k + 1] \o " " \o words[k + 2]]


(***************************************************************************)
(* Bounds and inputs.                                                      *)
(***************************************************************************)
\* the largest number of files in the folder a training run is pointed at
MaxFiles == 2

\* thresholds of the vocabulary derivation
TermMinCount == 3

TermMinLen == 3

PhraseMinCount == 2

\* the files a reference folder may hold: name, suffix, whether reading it
\* succeeds, and its text
ReferenceFiles ==
    << [name |-> "turn", suffix |-> ".txt", ok |-> TRUE,
        text |-> "Lay him on right. Lay him on right."],
       [name |-> "dose", suffix |-> ".txt", ok |-> TRUE,
        text |-> "dose dose very very very flu flu flu ab1 2mg"],
       [name |-> "locked", suffix |-> ".txt", ok |-> FALSE, text |-> ""],
       [name |-> "note", suffix |-> ".docx", ok |-> TRUE, text |-> "Dose\nlow"],
       [name |-> "old", suffix |-> ".docx", ok |-> FALSE, text |-> ""],
       [name |-> "scan", suffix |-> ".pdf", ok |-> TRUE, text |-> "dose"] >>

Folders == {S \in SUBSET Range(ReferenceFiles) : Cardinality(S) <= MaxFiles}

\* the raw texts the speech-to-text engine may return
Transcripts ==
    { ".",
      "flu",
      "Um. Okay.",
      "Lay him on right.",
      "Um, dose , well" }

(***************************************************************************)
(* The persistent store voxify_medical_db.pkl.  pickle.dump writes the     *)
(* dict as a stream: "{", then for each key the key, "(", the elements of  *)
(* its set in some order, ")", and a closing "}".  pickle.load parses it   *)
(* back and raises on anything else.                                       *)
(***************************************************************************)
RECURSIVE SetToSeq(_)
SetToSeq(S) ==
    IF S = {} THEN <<>>
    ELSE LET x == CHOOSE y \in S : TRUE IN <<x>> \o SetToSeq(S \ {x})

\* the stream with the set of phrases written under both keys
PickleDumpsPhrasesTwice(data) ==
    <<"{", "terms", "(">> \o SetToSeq(data.phrases) \o <<")", "phrases", "(">>
        \o SetToSeq(data.phrases) \o <<")", "}">>

PickleDumps(data) ==
    <<"{", "terms", "(">> \o SetToSeq(data.terms) \o <<")", "phrases", "(">>
        \o SetToSeq(data.phrases) \o <<")", "}">>

RECURSIVE CloseAt(_, _)
CloseAt(b, p) ==
    IF p > Len(b) THEN 0 ELSE IF b[p] = ")" THEN p ELSE CloseAt(b, p + 1)

LoadError == [ok |-> FALSE, isdict |-> FALSE, fields |-> <<>>]

RECURSIVE ParseFields(_, _, _)
ParseFields(b, p, acc) ==
    IF p > Len(b) THEN LoadError
    ELSE IF b[p] = "}"
         THEN IF p = Len(b) THEN [ok |-> TRUE, isdict |-> TRUE, fields |-> acc]
              ELSE LoadError
    ELSE IF p + 1 <= Len(b) /\ b[p + 1] = "("
         THEN LET c == CloseAt(b, p + 2)
              IN  IF c = 0 THEN LoadError
                  ELSE ParseFields(b, c + 1,
                                   (b[p] :> Range(SubSeq(b, p + 2, c - 1))) @@ acc)
    ELSE LoadError

PickleLoads(b) ==
    IF b = <<>> THEN LoadError
    ELSE IF b[1] = "{" THEN ParseFields(b, 2, <<>>)
    ELSE IF b = <<"[", "]">> THEN [ok |-> TRUE, isdict |-> FALSE, fields |-> <<>>]
    ELSE LoadError

\* dict.get(key, default)
DictGet(d, key, default) == IF key \in DOMAIN d THEN d[key] ELSE default

NoFile == [exists |-> FALSE, bytes |-> <<>>]

FileOf(bytes) == [exists |-> TRUE, bytes |-> bytes]

\* a vocabulary an earlier session learned (from the files "turn", "dose"
\* and "note") and saved
EarlierVocabulary ==
    [terms |-> {"dose"},
     phrases |-> {"lay him", "him on", "on right", "very very", "flu flu",
                  "lay him on", "him on right"}]

\* what an earlier session saved after a run that derived nothing
EmptyVocabulary == [terms |-> {}, phrases |-> {}]

\* what the store may hold when the application starts: nothing, bytes that
\* are no pickle, a pickled list, a dict without the phrases field, and the
\* dicts earlier sessions saved
InitialStores ==
    { NoFile,
      FileOf(<<"?">>),
      FileOf(<<"[", "]">>),
      FileOf(<<"{", "terms", "(", "dose", "well", ")", "}">>),
      FileOf(PickleDumps(EarlierVocabulary)),
      FileOf(PickleDumps(EmptyVocabulary)) }

\* __init__ followed by load_medical_database: the in-memory vocabulary and
\* the trained flag of a fresh application over the store `file`
LoadDatabase(file) ==
    LET untrained == [terms |-> {}, phrases |-> {}, trained |-> FALSE]
    IN  IF ~file.exists THEN untrained
        ELSE LET data == PickleLoads(file.bytes)
             IN  IF data.ok /\ data.isdict
                 THEN [terms |-> DictGet(data.fields, "terms", {}),
                       phrases |-> DictGet(data.fields, "phrases", {}),
                       trained |-> TRUE]
                 ELSE untrained

\* the stream save_medical_database writes for the in-memory vocabulary
SaveDatabase(terms, phrases) ==
    FileOf(PickleDumps([terms |-> terms, phrases |-> phrases]))

\* a store whose write broke off after open(db_file, 'wb') truncated it
TruncatedFile == FileOf(<<>>)

(***************************************************************************)
(* The filler sets.                                                        *)
(***************************************************************************)
\* filler_words of train_worker: never learned as terms
TrainingFillerWords ==
    { "um", "uh", "like", "you", "know", "mean", "just", "very",
      "really", "quite", "sort", "kind", "basically", "actually",
      "literally", "right", "okay", "well", "gonna", "the", "and",
      "for", "are", "this", "that", "with", "from", "have", "been" }

\* filler_words of clean_transcription
CleaningFillerWords ==
    { "um", "uh", "like", "you know", "i mean", "sort of", "kind of",
      "basically", "actually", "literally", "right", "okay", "well", "just" }

(***************************************************************************)
(* State.                                                                  *)
(***************************************************************************)
VARIABLES
    medical_terms,      \* self.medical_terms
    medical_phrases,    \* self.medical_phrases
    trained,            \* self.trained
    db_file,            \* the file voxify_medical_db.pkl
    train_pc,           \* where train_worker stands
    folder,             \* the folder the user selected
    text_files,         \* train_worker: the files globbed
    all_words,          \* train_worker: tokens of the files read
    all_bigrams,
    all_trigrams,
    clean_pc,           \* where the clean_transcription call stands
    text,               \* clean_transcription: its argument
    sentences,
    s_idx,              \* sentences handled so far
    words,              \* words of the current sentence
    i,                  \* cursor into words (0-based)
    kept,
    cleaned,
    result,             \* the value returned
    model,              \* self.model
    audio_queue,        \* self.audio_queue
    processing,         \* self.processing
    process_btn,        \* state of process_btn (clear_btn is set alike)
    add_files_btn,      \* state of add_files_btn (add_folder_btn is set alike)
    batch_pc,           \* where start_processing's worker stands
    idx,                \* worker: index of the file at hand (0-based)
    progress,           \* worker: the files announced by update_progress
    outputs             \* the transcripts written to output_dir

appVars == <<medical_terms, medical_phrases, trained, db_file>>

trainVars == <<train_pc, folder, text_files, all_words, all_bigrams, all_trigrams>>

cleanVars == <<clean_pc, text, sentences, s_idx, words, i, kept, cleaned, result>>

batchVars == <<model, audio_queue, processing, process_btn, add_files_btn,
               batch_pc, idx, progress, outputs>>

vars == <<appVars, trainVars, cleanVars, batchVars>>

TrainIdleLocals ==
    /\ folder = {}
    /\ text_files = <<>>
    /\ all_words = <<>>
    /\ all_bigrams = <<>>
    /\ all_trigrams = <<>>

CleanIdleLocals ==
    /\ text = ""
    /\ sentences = <<>>
    /\ s_idx = 0
    /\ words = <<>>
    /\ i = 0
    /\ kept = <<>>
    /\ cleaned = <<>>
    /\ result = ""

\* __init__: no model, empty queue, not processing; setup_ui leaves the
\* process button disabled and the add buttons enabled
BatchIdle ==
    /\ model = "None"
    /\ audio_queue = <<>>
    /\ processing = FALSE
    /\ process_btn = "disabled"
    /\ add_files_btn = "normal"
    /\ batch_pc = "idle"
    /\ idx = 0
    /\ progress = <<>>
    /\ outputs = {}

Init ==
    /\ BatchIdle
    /\ db_file \in InitialStores
    /\ medical_terms = LoadDatabase(db_file).terms
    /\ medical_phrases = LoadDatabase(db_file).phrases
    /\ trained = LoadDatabase(db_file).trained
    /\ train_pc = "idle"
    /\ TrainIdleLocals
    /\ clean_pc = "idle"
    /\ CleanIdleLocals

(***************************************************************************)
(* The application is closed and started again: __init__ and               *)
(* load_medical_database over the store as it is.                          *)
(***************************************************************************)
Restart ==
    /\ train_pc = "idle"
    /\ clean_pc = "idle"
    /\ medical_terms' = LoadDatabase(db_file).terms
    /\ medical_phrases' = LoadDatabase(db_file).phrases
    /\ trained' = LoadDatabase(db_file).trained
    /\ batch_pc = "idle"
    /\ model' = "None"
    /\ audio_queue' = <<>>
    /\ processing' = FALSE
    /\ process_btn' = "disabled"
    /\ add_files_btn' = "normal"
    /\ batch_pc' = "idle"
    /\ idx' = 0
    /\ progress' = <<>>
    /\ outputs' = {}
    /\ UNCHANGED <<db_file, trainVars, cleanVars>>

(***************************************************************************)
(* initial_training_setup and its train_worker thread.  The steps of the   *)
(* worker that touch only its own locals (the glob and the loop over the   *)
(* files) are one action; every write of self.* is an action of its own.   *)
(***************************************************************************)
\* Path(folder).glob("*.txt"), then "*.docx", then "*.doc"
GlobFiles(dir) ==
    LET InDir(sfx) ==
            LET Match(f) == f \in dir /\ f.suffix = sfx
            IN  SelectSeq(ReferenceFiles, Match)
    IN  InDir(".txt") \o InDir(".docx") \o InDir(".doc")

\* one pass of the loop body up to the tokenizer: the tokens of the file,
\* none when a .txt cannot be read (the exception is printed) or when
\* python-docx cannot open a document (continue)
FileWords(f) ==
    IF f.suffix = ".txt"
    THEN IF f.ok THEN Tokenize(f.text) ELSE <<>>
    ELSE IF f.ok THEN Tokenize(f.text) ELSE <<>>

\* the loop with the n-grams formed over the running all_words instead of
\* the words of the file at hand
RECURSIVE ReadFilesAcrossDocuments(_, _)
ReadFilesAcrossDocuments(files, acc) ==
    IF files = <<>>
    THEN [words |-> acc.words,
          bigrams |-> Bigrams(acc.words),
          trigrams |-> Trigrams(acc.words)]
    ELSE ReadFilesAcrossDocuments(Tail(files),
             [acc EXCEPT !.words = acc.words \o FileWords(Head(files))])

\* the loop over text_files: all_words, all_bigrams, all_trigrams
RECURSIVE ReadFiles(_, _)
ReadFiles(files, acc) ==
    IF files = <<>> THEN acc
    ELSE LET tokens == FileWords(Head(files))
         IN  ReadFiles(Tail(files),
                       [words |-> acc.words \o tokens,
                        bigrams |-> acc.bigrams \o Bigrams(tokens),
                        trigrams |-> acc.trigrams \o Trigrams(tokens)])

\* initial_training_setup: the user picks a folder and the worker thread
\* is started
TrainStart ==
    /\ train_pc = "idle"
    /\ \E dir \in Folders : folder' = dir
    /\ train_pc' = "glob"
    /\ UNCHANGED <<appVars, text_files, all_words, all_bigrams, all_trigrams, cleanVars>>
    /\ UNCHANGED batchVars

\* train_worker finds no matching file: the error box, and it returns
TrainNoFiles ==
    /\ train_pc = "glob"
    /\ GlobFiles(folder) = <<>>
    /\ train_pc' = "error_dialog"
    /\ UNCHANGED <<appVars, folder, text_files, all_words, all_bigrams, all_trigrams, cleanVars>>
    /\ UNCHANGED batchVars

\* train_worker globs the folder and loops over its files
TrainReadFiles ==
    /\ train_pc = "glob"
    /\ LET found == GlobFiles(folder)
           read == ReadFiles(found, [words |-> <<>>, bigrams |-> <<>>, trigrams |-> <<>>])
       IN  /\ found # <<>>
           /\ text_files' = found
           /\ all_words' = read.words
           /\ all_bigrams' = read.bigrams
           /\ all_trigrams' = read.trigrams
    /\ train_pc' = "terms"
    /\ UNCHANGED <<appVars, folder, cleanVars>>
    /\ UNCHANGED batchVars

\* the terms comprehension with the length test written len(word) >= 3
DeriveTermsShortWords(wordlist) ==
    {w \in Range(wordlist) :
        /\ Count(wordlist, w) >= TermMinCount
        /\ Len(w) >= TermMinLen
        /\ w \notin TrainingFillerWords}

\* the terms comprehension over Counter(all_words)
DeriveTerms(wordlist) ==
    {w \in Range(wordlist) :
        /\ Count(wordlist, w) >= TermMinCount
        /\ Len(w) > TermMinLen
        /\ w \notin TrainingFillerWords}

\* the phrases comprehension with the count test written count >= 1
DerivePhrasesSeenOnce(ngrams) ==
    {p \in Range(ngrams) : Count(ngrams, p) >= PhraseMinCount - 1}

\* the phrases comprehension over Counter(all_bigrams), Counter(all_trigrams)
DerivePhrases(ngrams) ==
    {p \in Range(ngrams) : Count(ngrams, p) >= PhraseMinCount}

\* self.medical_terms = {...}
TrainSetTerms ==
    /\ train_pc = "terms"
    /\ medical_terms' = DeriveTerms(all_words)
    /\ train_pc' = "bigrams"
    /\ UNCHANGED <<medical_phrases, trained, db_file, folder, text_files,
                   all_words, all_bigrams, all_trigrams, cleanVars>>
    /\ UNCHANGED batchVars

\* self.medical_phrases = {...}
TrainSetPhrases ==
    /\ train_pc = "bigrams"
    /\ medical_phrases' = DerivePhrases(all_bigrams)
    /\ train_pc' = "trigrams"
    /\ UNCHANGED <<medical_terms, trained, db_file, folder, text_files,
                   all_words, all_bigrams, all_trigrams, cleanVars>>
    /\ UNCHANGED batchVars

\* self.medical_phrases.update({...})
TrainUpdatePhrases ==
    /\ train_pc = "trigrams"
    /\ medical_phrases' = medical_phrases \cup DerivePhrases(all_trigrams)
    /\ train_pc' = "save"
    /\ UNCHANGED <<medical_terms, trained, db_file, folder, text_files,
                   all_words, all_bigrams, all_trigrams, cleanVars>>
    /\ UNCHANGED batchVars

\* save_medical_database returns True
TrainSaveOk ==
    /\ train_pc = "save"
    /\ db_file' = SaveDatabase(medical_terms, medical_phrases)
    /\ train_pc' = "saved"
    /\ UNCHANGED <<medical_terms, medical_phrases, trained, folder, text_files,
                   all_words, all_bigrams, all_trigrams, cleanVars>>
    /\ UNCHANGED batchVars

\* save_medical_database returns False (open fails and the store is as it
\* was, or the write fails after open truncated the store): the error box
TrainSaveFail ==
    /\ train_pc = "save"
    /\ db_file' \in {db_file, TruncatedFile}
    /\ train_pc' = "error_dialog"
    /\ UNCHANGED <<medical_terms, medical_phrases, trained, folder, text_files,
                   all_words, all_bigrams, all_trigrams, cleanVars>>
    /\ UNCHANGED batchVars

\* self.trained = True, and the "Training Complete" box
TrainSetTrained ==
    /\ train_pc = "saved"
    /\ trained' = TRUE
    /\ train_pc' = "info_dialog"
    /\ UNCHANGED <<medical_terms, medical_phrases, db_file, folder, text_files,
                   all_words, all_bigrams, all_trigrams, cleanVars>>
    /\ UNCHANGED batchVars

\* the box is closed; the worker's locals are gone
TrainDialogClose ==
    /\ train_pc \in {"error_dialog", "info_dialog"}
    /\ train_pc' = "idle"
    /\ folder' = {}
    /\ text_files' = <<>>
    /\ all_words' = <<>>
    /\ all_bigrams' = <<>>
    /\ all_trigrams' = <<>>
    /\ UNCHANGED <<appVars, cleanVars>>
    /\ UNCHANGED batchVars

TrainStep ==
    \/ TrainStart
    \/ TrainNoFiles
    \/ TrainReadFiles
    \/ TrainSetTerms
    \/ TrainSetPhrases
    \/ TrainUpdatePhrases
    \/ TrainSaveOk
    \/ TrainSaveFail
    \/ TrainSetTrained
    \/ TrainDialogClose

(***************************************************************************)
(* clean_transcription(text), called by the batch worker with the raw text *)
(* of one recording.  Each pass of the while loop reads the vocabulary and *)
(* is an action; the statements between two passes touch only locals and   *)
(* belong to the action they follow.                                       *)
(***************************************************************************)
\* [s.strip() for s in text.split('.') if s.strip()]
SplitSentences(raw) ==
    LET parts == SelectSeq(SplitAcc(raw, "", {"."}), NotBlank)
    IN  [k \in 1..Len(parts) |-> StripBlank(parts[k])]

\* sentence.lower().split()
SentenceWords(sentence) == SplitWords(StrLower(sentence))

\* words[k].strip('.,;!?') for the 0-based position k
WordAt(wordlist, k) == Strip(wordlist[k + 1], StripChars)

TrigramAt(wordlist, k) ==
    WordAt(wordlist, k) \o " " \o WordAt(wordlist, k + 1) \o " " \o WordAt(wordlist, k + 2)

BigramAt(wordlist, k) == WordAt(wordlist, k) \o " " \o WordAt(wordlist, k + 1)

\* the trigram test at the cursor
TrigramMatches(wordlist, k, phrases) ==
    /\ k < Len(wordlist) - 2
    /\ TrigramAt(wordlist, k) \in phrases

\* the bigram test at the cursor
BigramMatches(wordlist, k, terms, phrases) ==
    /\ k < Len(wordlist) - 1
    /\ (BigramAt(wordlist, k) \in terms \/ BigramAt(wordlist, k) \in phrases)

\* the single-word test with `and` in place of `or`
KeepSingleBoth(word, terms) == word \in terms /\ word \notin CleaningFillerWords

\* the single-word test
KeepSingle(word, terms) == word \in terms \/ word \notin CleaningFillerWords

\* kept[0] = kept[0].capitalize(); ' '.join(kept)
SentenceText(keptwords) ==
    Join([keptwords EXCEPT ![1] = Capitalize(@)], " ")

\* the return value without the fallback to text
CleanResultNoFallback(cleanedlist, raw) == Join(cleanedlist, ". ") \o "."

\* '. '.join(cleaned) + '.' if cleaned else text
CleanResult(cleanedlist, raw) ==
    IF cleanedlist # <<>> THEN Join(cleanedlist, ". ") \o "." ELSE raw

\* not self.trained: return text
CleanUntrained ==
    /\ clean_pc = "idle"
    /\ ~trained
    /\ \E raw \in Transcripts :
        /\ text' = raw
        /\ result' = raw
    /\ clean_pc' = "done"
    /\ UNCHANGED <<appVars, trainVars, sentences, s_idx, words, i, kept, cleaned>>
    /\ UNCHANGED batchVars

\* self.trained: the sentences are split off and the first one is taken up;
\* without a sentence the for loop is empty and the text is returned
CleanEnter ==
    /\ clean_pc = "idle"
    /\ trained
    /\ \E raw \in Transcripts :
        LET split == SplitSentences(raw)
        IN  /\ text' = raw
            /\ sentences' = split
            /\ IF split = <<>>
               THEN /\ result' = CleanResult(<<>>, raw)
                    /\ clean_pc' = "done"
                    /\ UNCHANGED words
               ELSE /\ words' = SentenceWords(split[1])
                    /\ clean_pc' = "scan"
                    /\ UNCHANGED result
    /\ cleaned' = <<>>
    /\ s_idx' = 0
    /\ kept' = <<>>
    /\ i' = 0
    /\ UNCHANGED <<appVars, trainVars>>
    /\ UNCHANGED batchVars

ScanTrigram ==
    /\ clean_pc = "scan"
    /\ i < Len(words)
    /\ TrigramMatches(words, i, medical_phrases)
    /\ kept' = kept \o <<WordAt(words, i), WordAt(words, i + 1), WordAt(words, i + 2)>>
    /\ i' = i + 3
    /\ UNCHANGED <<appVars, trainVars, clean_pc, text, sentences, s_idx, words, cleaned, result>>
    /\ UNCHANGED batchVars

ScanBigram ==
    /\ clean_pc = "scan"
    /\ i < Len(words)
    /\ ~TrigramMatches(words, i, medical_phrases)
    /\ BigramMatches(words, i, medical_terms, medical_phrases)
    /\ kept' = kept \o <<WordAt(words, i), WordAt(words, i + 1)>>
    /\ i' = i + 2
    /\ UNCHANGED <<appVars, trainVars, clean_pc, text, sentences, s_idx, words, cleaned, result>>
    /\ UNCHANGED batchVars

ScanSingle ==
    /\ clean_pc = "scan"
    /\ i < Len(words)
    /\ ~TrigramMatches(words, i, medical_phrases)
    /\ ~BigramMatches(words, i, medical_terms, medical_phrases)
    /\ kept' = IF KeepSingle(WordAt(words, i), medical_terms)
               THEN Append(kept, WordAt(words, i))
               ELSE kept
    /\ i' = i + 1
    /\ UNCHANGED <<appVars, trainVars, clean_pc, text, sentences, s_idx, words, cleaned, result>>
    /\ UNCHANGED batchVars

\* the while loop is over: if kept, the sentence is appended to cleaned;
\* then the next sentence is taken up, or the for loop is over and the
\* value to return is built
SentenceEnd ==
    /\ clean_pc = "scan"
    /\ i >= Len(words)
    /\ LET appended == IF kept # <<>> THEN Append(cleaned, SentenceText(kept))
                       ELSE cleaned
       IN  /\ cleaned' = appended
           /\ IF s_idx + 1 < Len(sentences)
              THEN /\ words' = SentenceWords(sentences[s_idx + 2])
                   /\ kept' = <<>>
                   /\ i' = 0
                   /\ UNCHANGED <<clean_pc, result>>
              ELSE /\ result' = CleanResult(appended, text)
                   /\ clean_pc' = "done"
                   /\ UNCHANGED <<words, kept, i>>
    /\ s_idx' = s_idx + 1
    /\ UNCHANGED <<appVars, trainVars, text, sentences>>
    /\ UNCHANGED batchVars

\* the caller has the result; the call's locals are gone
CleanReturn ==
    /\ clean_pc = "done"
    /\ clean_pc' = "idle"
    /\ text' = ""
    /\ sentences' = <<>>
    /\ s_idx' = 0
    /\ words' = <<>>
    /\ i' = 0
    /\ kept' = <<>>
    /\ cleaned' = <<>>
    /\ result' = ""
    /\ UNCHANGED <<appVars, trainVars>>
    /\ UNCHANGED batchVars

CleanStep ==
    \/ CleanUntrained
    \/ CleanEnter
    \/ ScanTrigram
    \/ ScanBigram
    \/ ScanSingle
    \/ SentenceEnd
    \/ CleanReturn

Next == Restart \/ TrainStep \/ CleanStep

Spec == Init /\ [][Next]_vars

(***************************************************************************)
(* The batch: add_to_queue, clear_queue, start_processing with its worker  *)
(* thread, and reset_ui.  The worker calls clean_transcription on the raw  *)
(* text of each recording it could transcribe.                             *)
(***************************************************************************)
\* recordings the user can select; the last is over 100 MB
AudioFiles == {"a.mp3", "b.wav"}

LargeFiles == {"huge.flac"}

\* what a file dialog or a folder glob hands to add_to_queue
Selections ==
    {<<f>> : f \in AudioFiles \cup LargeFiles}
        \cup {<<f, g>> : <<f, g>> \in {p \in (AudioFiles \cup LargeFiles)
                            \X (AudioFiles \cup LargeFiles) : p[1] # p[2]}}

\* the loop of add_to_queue: files already queued and files over 100 MB
\* are skipped
RECURSIVE AddAll(_, _)
AddAll(queue, files) ==
    IF files = <<>> THEN queue
    ELSE IF Head(files) \in Range(queue) \/ Head(files) \in LargeFiles
         THEN AddAll(queue, Tail(files))
         ELSE AddAll(Append(queue, Head(files)), Tail(files))

\* add_files / add_folder -> add_to_queue
AddToQueue ==
    /\ add_files_btn = "normal"
    /\ \E files \in Selections :
        LET queue == AddAll(audio_queue, files)
        IN  /\ audio_queue' = queue
            /\ process_btn' = IF Len(queue) > Len(audio_queue) THEN "normal"
                              ELSE process_btn
    /\ UNCHANGED <<appVars, trainVars, cleanVars, model, processing,
                   add_files_btn, batch_pc, idx, progress, outputs>>

\* clear_queue, confirmed
ClearQueue ==
    /\ process_btn = "normal"
    /\ audio_queue' = <<>>
    /\ process_btn' = "disabled"
    /\ UNCHANGED <<appVars, trainVars, cleanVars, model, processing,
                   add_files_btn, batch_pc, idx, progress, outputs>>

\* start_processing up to thread.start(); an untrained user has answered
\* "Continue anyway?" with yes.  A new output_dir is made.
StartProcessing ==
    /\ process_btn = "normal"
    /\ audio_queue # <<>>
    /\ processing' = TRUE
    /\ process_btn' = "disabled"
    /\ add_files_btn' = "disabled"
    /\ batch_pc' = "load"
    /\ idx' = 0
    /\ progress' = <<>>
    /\ outputs' = {}
    /\ UNCHANGED <<appVars, trainVars, cleanVars, model, audio_queue>>

\* worker: whisper.load_model when self.model is None.  The call stands
\* outside the try of the loop: when it raises, the thread ends there.
WorkerLoadModel ==
    /\ batch_pc = "load"
    /\ IF model = "None"
       THEN \E loaded \in BOOLEAN :
                IF loaded
                THEN model' = "base" /\ batch_pc' = "file"
                ELSE model' = model /\ batch_pc' = "crashed"
       ELSE model' = model /\ batch_pc' = "file"
    /\ UNCHANGED <<appVars, trainVars, cleanVars, audio_queue, processing,
                   process_btn, add_files_btn, idx, progress, outputs>>

\* worker: the next file is announced and transcribed; when transcribe
\* raises, the except clause prints and the loop goes on
WorkerTranscribe ==
    /\ batch_pc = "file"
    /\ idx < Len(audio_queue)
    /\ progress' = Append(progress, audio_queue[idx + 1])
    /\ \E transcribed \in BOOLEAN :
        IF transcribed
        THEN batch_pc' = "clean" /\ idx' = idx
        ELSE batch_pc' = "file" /\ idx' = idx + 1
    /\ UNCHANGED <<appVars, trainVars, cleanVars, model, audio_queue, processing,
                   process_btn, add_files_btn, outputs>>

\* worker: cleaned = self.clean_transcription(raw), up to its return
WorkerClean ==
    /\ batch_pc = "clean"
    /\ \/ CleanUntrained
       \/ CleanEnter
       \/ ScanTrigram
       \/ ScanBigram
       \/ ScanSingle
       \/ SentenceEnd

\* worker: the call has returned and the transcript is written, or the
\* write raises and the except clause prints; on to the next file
WorkerWrite ==
    /\ batch_pc = "clean"
    /\ clean_pc = "done"
    /\ \E written \in BOOLEAN :
        outputs' = IF written
                   THEN outputs \cup {[source |-> audio_queue[idx + 1],
                                       cleaned |-> result]}
                   ELSE outputs
    /\ idx' = idx + 1
    /\ batch_pc' = "file"
    /\ clean_pc' = "idle"
    /\ text' = ""
    /\ sentences' = <<>>
    /\ s_idx' = 0
    /\ words' = <<>>
    /\ i' = 0
    /\ kept' = <<>>
    /\ cleaned' = <<>>
    /\ result' = ""
    /\ UNCHANGED <<appVars, trainVars, model, audio_queue, processing,
                   process_btn, add_files_btn, progress>>

\* worker: the loop is over; reset_ui is handed to the main loop
WorkerFinish ==
    /\ batch_pc = "file"
    /\ idx >= Len(audio_queue)
    /\ batch_pc' = "reset"
    /\ UNCHANGED <<appVars, trainVars, cleanVars, model, audio_queue, processing,
                   process_btn, add_files_btn, idx, progress, outputs>>

WorkerStep ==
    \/ WorkerLoadModel
    \/ WorkerTranscribe
    \/ WorkerClean
    \/ WorkerWrite
    \/ WorkerFinish

\* reset_ui, run by the main loop
ResetUi ==
    /\ batch_pc = "reset"
    /\ processing' = FALSE
    /\ audio_queue' = <<>>
    /\ process_btn' = "disabled"
    /\ add_files_btn' = "normal"
    /\ batch_pc' = "idle"
    /\ UNCHANGED <<appVars, trainVars, cleanVars, model, idx, progress, outputs>>

BatchNext ==
    \/ AddToQueue
    \/ ClearQueue
    \/ StartProcessing
    \/ WorkerStep
    \/ ResetUi

\* the worker thread, once started, keeps being scheduled while it has a
\* step to take, and the main loop runs the callbacks handed to it
BatchSpec ==
    /\ Init
    /\ [][BatchNext]_vars
    /\ WF_vars(WorkerStep)
    /\ WF_vars(ResetUi)

(***************************************************************************)
(* Properties.                                                             *)
(***************************************************************************)
\* the words of the current sentence as the cleaner compares them
StrippedWords == [k \in 1..Len(words) |-> Strip(words[k], StripChars)]

\* the while loop over the current sentence has ended
SentenceScanned == clean_pc = "scan" /\ i >= Len(words)

\* C1: phrase protection.  When a sentence has been scanned, every three
\* consecutive words of it that form a string of medical_phrases stand
\* adjacent and in order among the kept words.
C1_PhraseProtection ==
    SentenceScanned =>
        \A j \in 1..(Len(words) - 2) :
            LET w == StrippedWords
            IN  (w[j] \o " " \o w[j + 1] \o " " \o w[j + 2]) \in medical_phrases
                => \E k \in 1..(Len(kept) - 2) :
                       /\ kept[k] = w[j]
                       /\ kept[k + 1] = w[j + 1]
                       /\ kept[k + 2] = w[j + 2]

\* C2: empty-vocabulary pass-through.  A call that returns while terms and
\* phrases are both empty returns its text unchanged.
C2_EmptyVocabularyPassThrough ==
    (clean_pc = "done" /\ medical_terms = {} /\ medical_phrases = {})
        => result = text

\* the training run is under way (its worker thread is alive)
TrainRunning == train_pc \notin {"idle", "error_dialog", "info_dialog"}

\* no file of the selected folder yields text: none matches, or every
\* matching file is skipped or fails to read
NoSourceYieldsText ==
    \A f \in folder : f.suffix \in {".txt", ".docx", ".doc"} => ~f.ok

\* C3: a training run that obtains text from no source changes neither the
\* in-memory terms, phrases and trained flag nor the store, and ends with
\* the error box.
C3_NoCorpusLeavesVocabulary ==
    [][(TrainRunning /\ NoSourceYieldsText /\ train_pc' # train_pc)
        => /\ UNCHANGED appVars
           /\ train_pc' # "info_dialog"]_vars

\* C4: non-empty guarantee.  A call on a non-empty text returns a non-empty
\* string, and returns the text itself when no sentence survived.
C4_NonEmptyResult ==
    (clean_pc = "done" /\ text # "")
        => /\ result # ""
           /\ (cleaned = <<>> => result = text)

\* a trained call on a text with sentences, all of them filtered to nothing
C4_Witness ==
    /\ clean_pc = "done"
    /\ trained
    /\ sentences # <<>>
    /\ cleaned = <<>>
    /\ text # ""
    /\ result = text

\* the tokens of the documents of the run, one sequence per file read
DocumentTokens ==
    [k \in 1..Len(text_files) |->
        IF text_files[k].ok THEN Tokenize(text_files[k].text) ELSE <<>>]

RECURSIVE SumOver(_, _, _)
SumOver(Op(_, _), docs, x) ==
    IF docs = <<>> THEN 0 ELSE Op(Head(docs), x) + SumOver(Op, Tail(docs), x)

\* occurrences of the n-gram p (n = 1, 2, 3) among the windows of one document
WindowCount(tokens, p) ==
    Cardinality({k \in 1..Len(tokens) :
        \/ tokens[k] = p
        \/ k + 1 <= Len(tokens) /\ tokens[k] \o " " \o tokens[k + 1] = p
        \/ k + 2 <= Len(tokens)
            /\ tokens[k] \o " " \o tokens[k + 1] \o " " \o tokens[k + 2] = p})

\* occurrences of p summed over the documents
CorpusCount(docs, p) == SumOver(WindowCount, docs, p)

CorpusWords(docs) == UNION {Range(docs[k]) : k \in 1..Len(docs)}

CorpusBigrams(docs) ==
    UNION {{docs[k][j] \o " " \o docs[k][j + 1] : j \in 1..(Len(docs[k]) - 1)} :
              k \in 1..Len(docs)}

CorpusTrigrams(docs) ==
    UNION {{docs[k][j] \o " " \o docs[k][j + 1] \o " " \o docs[k][j + 2] :
                j \in 1..(Len(docs[k]) - 2)} : k \in 1..Len(docs)}

\* the run has assigned self.medical_terms
TermsDerived ==
    /\ train_pc \in {"bigrams", "trigrams", "save", "saved", "error_dialog", "info_dialog"}
    /\ text_files # <<>>

\* the run has assigned and updated self.medical_phrases
PhrasesDerived ==
    /\ train_pc \in {"save", "saved", "error_dialog", "info_dialog"}
    /\ text_files # <<>>

\* C5: term threshold.  Once a run has derived the terms, a token is a term
\* iff it occurs at least 3 times over all documents, is longer than 3
\* characters and is not in the training stoplist.
C5_TermThreshold ==
    TermsDerived =>
        LET docs == DocumentTokens
        IN  medical_terms = {w \in CorpusWords(docs) :
                                /\ CorpusCount(docs, w) >= 3
                                /\ Len(w) > 3
                                /\ w \notin TrainingFillerWords}

\* a run in which "dose" (3 times, 4 letters) became a term while "flu"
\* (3 letters, 3 times), "very" (stoplist, 3 times) and "low" (once) did not
C5_Witness ==
    /\ TermsDerived
    /\ medical_terms = {"dose"}
    /\ Count(all_words, "dose") = 3
    /\ Count(all_words, "flu") >= 3
    /\ Count(all_words, "very") >= 3
    /\ Count(all_words, "low") = 1

\* C6: phrase threshold.  Once a run has derived the phrases, they are the
\* bigrams and the trigrams that occur at least twice over all documents,
\* each has two or three words, and no phrase is a term.
C6_PhraseThreshold ==
    PhrasesDerived =>
        /\ LET docs == DocumentTokens
           IN  medical_phrases = {p \in CorpusBigrams(docs) \cup CorpusTrigrams(docs) :
                                     CorpusCount(docs, p) >= 2}
        /\ \A p \in medical_phrases : Len(SplitWords(p)) \in {2, 3}
        /\ medical_terms \cap medical_phrases = {}

\* a run in which a bigram of stoplist words seen twice and a trigram seen
\* twice became phrases while a bigram seen once did not
C6_Witness ==
    /\ PhrasesDerived
    /\ "very very" \in medical_phrases
    /\ "lay him on" \in medical_phrases
    /\ "dose very" \in Range(all_bigrams)
    /\ "dose very" \notin medical_phrases

\* C7: single-word fallback.  A pass of the while loop at a word that starts
\* neither a matching trigram nor a matching bigram keeps the word iff it is
\* a term or not a cleaning filler, and moves the cursor by 1.
C7_SingleWordFallback ==
    [][(/\ clean_pc = "scan"
        /\ i < Len(words)
        /\ i' # i
        /\ ~(/\ i + 3 <= Len(words)
             /\ (StrippedWords[i + 1] \o " " \o StrippedWords[i + 2] \o " "
                    \o StrippedWords[i + 3]) \in medical_phrases)
        /\ ~(/\ i + 2 <= Len(words)
             /\ (StrippedWords[i + 1] \o " " \o StrippedWords[i + 2])
                    \in medical_terms \cup medical_phrases))
        => /\ i' = i + 1
           /\ kept' = IF \/ StrippedWords[i + 1] \in medical_terms
                         \/ StrippedWords[i + 1] \notin CleaningFillerWords
                      THEN Append(kept, StrippedWords[i + 1])
                      ELSE kept]_vars

\* the filler "um" was dropped and the filler "well", a term, was kept by
\* single-word passes
C7_Witness ==
    /\ clean_pc = "scan"
    /\ i = Len(words)
    /\ StrippedWords[1] = "um"
    /\ "well" \in medical_terms
    /\ "well" \in CleaningFillerWords
    /\ kept = <<"dose", "", "well">>

\* the store is missing, cannot be deserialized, or is no record holding
\* both the terms and the phrases field
StoreMissingOrCorrupt(file) ==
    \/ ~file.exists
    \/ ~PickleLoads(file.bytes).ok
    \/ ~PickleLoads(file.bytes).isdict
    \/ ~({"terms", "phrases"} \subseteq DOMAIN PickleLoads(file.bytes).fields)

\* C8: graceful load.  A fresh application over a missing or corrupt store
\* is untrained with empty terms and phrases.
C8_GracefulLoad ==
    StoreMissingOrCorrupt(db_file) =>
        LoadDatabase(db_file) = [terms |-> {}, phrases |-> {}, trained |-> FALSE]

\* C9: store round trip.  Right after a successful save, a fresh application
\* loading the store holds the saved terms and phrases and is trained.
C9_StoreRoundTrip ==
    train_pc = "saved" =>
        LoadDatabase(db_file) =
            [terms |-> medical_terms, phrases |-> medical_phrases, trained |-> TRUE]

\* a successful save of a vocabulary with terms and phrases
C9_Witness ==
    /\ train_pc = "saved"
    /\ medical_terms # {}
    /\ medical_phrases # {}
    /\ medical_terms # medical_phrases

\* the maximal runs of letters of a lowercased text, in order
RECURSIVE LetterRuns(_, _)
LetterRuns(t, cur) ==
    LET flush == IF cur = "" THEN <<>> ELSE <<cur>>
    IN  IF t = "" THEN flush
        ELSE IF Ch(t, 1) \in LowerSet THEN LetterRuns(Rest(t), cur \o Ch(t, 1))
        ELSE flush \o LetterRuns(Rest(t), "")

RECURSIVE Concat(_)
Concat(seqs) == IF seqs = <<>> THEN <<>> ELSE Head(seqs) \o Concat(Tail(seqs))

\* C10: tokenization.  The tokens gathered from the files read are, file by
\* file, the maximal runs of letters of the lowercased text.
C10_Tokenization ==
    train_pc = "terms" =>
        all_words = Concat([k \in 1..Len(text_files) |->
                        IF text_files[k].ok
                        THEN LetterRuns(StrLower(text_files[k].text), "")
                        ELSE <<>>])

\* the run has read its files and still holds its locals
FilesRead ==
    /\ train_pc \notin {"idle", "glob"}
    /\ text_files # <<>>

Max0(n) == IF n > 0 THEN n ELSE 0

RECURSIVE SumLen(_, _)
SumLen(docs, less) ==
    IF docs = <<>> THEN 0
    ELSE Max0(Len(Head(docs)) - less) + SumLen(Tail(docs), less)

\* the windows of n adjacent tokens (n = 2, 3) of one document, in order
Windows(tokens, n) ==
    [j \in 1..Max0(Len(tokens) - (n - 1)) |->
        IF n = 2 THEN tokens[j] \o " " \o tokens[j + 1]
        ELSE tokens[j] \o " " \o tokens[j + 1] \o " " \o tokens[j + 2]]

\* the pairs made of the last token of a document and the first token of
\* the next document that has any
BoundaryPairs(docs) ==
    {docs[a][Len(docs[a])] \o " " \o docs[b][1] :
        <<a, b>> \in {p \in (1..Len(docs)) \X (1..Len(docs)) :
                        /\ p[1] < p[2]
                        /\ docs[p[1]] # <<>>
                        /\ docs[p[2]] # <<>>
                        /\ \A m \in (p[1] + 1)..(p[2] - 1) : docs[m] = <<>>}}

\* C11: n-grams per document.  Once a run has read its files, a document of
\* L tokens has contributed max(L-1, 0) bigrams and max(L-2, 0) trigrams,
\* each a window of adjacent tokens of that document, and a pair of words
\* adjacent only across a document boundary is counted 0 times.
C11_NgramsPerDocument ==
    FilesRead =>
        LET docs == DocumentTokens
        IN  /\ Len(all_bigrams) = SumLen(docs, 1)
            /\ Len(all_trigrams) = SumLen(docs, 2)
            /\ all_bigrams = Concat([k \in 1..Len(docs) |-> Windows(docs[k], 2)])
            /\ all_trigrams = Concat([k \in 1..Len(docs) |-> Windows(docs[k], 3)])
            /\ \A p \in BoundaryPairs(docs) :
                    p \notin CorpusBigrams(docs) => Count(all_bigrams, p) = 0

\* two documents read one after the other, "flu" ending the first and
\* "dose" starting the second
C11_Witness ==
    /\ train_pc = "terms"
    /\ Len(text_files) = 2
    /\ text_files[1].name = "dose"
    /\ text_files[2].name = "note"
    /\ "flu dose" \in BoundaryPairs(DocumentTokens)
    /\ "flu dose" \notin Range(all_bigrams)
    /\ Len(all_bigrams) = 8
    /\ Len(all_trigrams) = 6

\* the vocabulary a pass of the cleaner's while loop reads
Vocabulary == [terms |-> medical_terms, phrases |-> medical_phrases]

\* the vocabulary the run in progress is deriving from the files it read
NewVocabulary ==
    [terms |-> DeriveTerms(all_words),
     phrases |-> DerivePhrases(all_bigrams) \cup DerivePhrases(all_trigrams)]

\* a clean_transcription call is under way with a pass of its loop ahead
CleanReading == clean_pc = "scan" /\ i < Len(words)

\* C12: atomic vocabulary replacement.  Whenever the vocabulary changes while
\* a clean_transcription call is under way, the change installs the complete
\* new vocabulary of the training run: the call reads the previous
\* vocabulary or the new one, never new terms with old phrases nor the new
\* bigrams without the new trigrams.
C12_AtomicReplacement ==
    [][(CleanReading /\ CleanReading' /\ Vocabulary' # Vocabulary)
          => Vocabulary' = NewVocabulary]_vars

\* start_processing has launched the worker
BatchLaunched == processing /\ batch_pc = "load"

\* reset_ui has run
BatchReset ==
    /\ ~processing
    /\ audio_queue = <<>>
    /\ add_files_btn = "normal"

\* C13: batch completion.  Once the worker is launched on a non-empty queue,
\* reset_ui eventually runs (processing false, queue empty, add buttons
\* enabled) whatever fails on the way; and when the worker hands over to
\* reset_ui it has attempted each queued file once, in queue order.
C13_BatchCompletion ==
    /\ [](batch_pc = "reset" => progress = audio_queue)
    /\ (BatchLaunched /\ audio_queue # <<>>) ~> BatchReset

\* what a start of the application would load from the store as it is
StoredVocabulary ==
    [terms |-> LoadDatabase(db_file).terms,
     phrases |-> LoadDatabase(db_file).phrases]

\* C14: memory/store consistency.  With no training run in progress, a
\* trained application holds in memory the terms and phrases of the store.
C14_MemoryMatchesStore ==
    (train_pc = "idle" /\ trained) => Vocabulary = StoredVocabulary

=============================================================================
